---- MODULE Spec2Model ----
(***************************************************************************)
(* Model of the taskgraph framework node (framework/framework.go): the     *)
(* epoch coordinator, the meta notification protocol and the data exchange *)
(* router of a job whose nodes share one coordination store (etcd); and of *)
(* the Azure blob storage client (filesystem/azure.go).                    *)
(*                                                                         *)
(* Strings are sequences of one-character strings, so that the meta value  *)
(* "<epoch>-<meta>" is really formatted and parsed.  uint64 is scaled down *)
(* to the range 0..MaxUint64 with wrap-around arithmetic.                  *)
(***************************************************************************)
EXTENDS Integers, Sequences, FiniteSets, TLC

\* ---------------------------------------------------------------- bounds
\* Largest value of the (scaled) unsigned epoch type; arithmetic wraps.
MaxUint64 == 3
\* Total number of successful epoch and meta writes to the store.
MaxWrites == 2
\* Capacity of the outbound data request channel.
ChanCap == 1
\* Largest number of blocks a blob holds.
MaxBlocks == 1

\* azure.go:36  the length a container name must have
ContainerNameLen == 32

\* ---------------------------------------------------------------- inputs
Tasks == {0, 1}
Metas == { <<"a">>, <<"-", "b">> }
TaskEpochs == {0, 1}
Payloads == { "P" }
\* The tasks whose application logic fetches data from a peer.
Requesters == {1}

Uint64 == 0..MaxUint64
Wrap(x) == x % (MaxUint64 + 1)

\* framework.go:15  const exitEpoch = math.MaxUint64
exitEpoch == MaxUint64

VARIABLES
    epochLog,        \* store: the values the epoch key has held, in order
    epochBy,         \* for each later entry of epochLog, the node that wrote it
    statusLog,       \* store: the nodes that set the job status key (to 0)
    metaLog,         \* store: per meta key, the values written to it, in order
    flagged,         \* per meta key, the (epoch, meta) arguments of each write
    status,          \* per node: running / exited / killed / fatal / panicked
    pc,              \* per node: the framework call the event loop thread is inside
    epoch,           \* per node: f.epoch
    epochIdx,        \* per node: position of the epoch watch in epochLog
    epochChanClosed, \* per node: f.epochChan has been closed
    failure,         \* per node: why a framework call of the node failed, if one did
    shutdownCalled,  \* per node: the Task has called ShutdownJob
    metaIdx,         \* per node, per meta key: position of the meta watch
    metaNotified,    \* per node: f.metaNotified
    metaCalls,       \* per node: how often the Task's meta callback ran, per triple
    refired,         \* per node: triples the watch delivered more than once
    restarted,       \* per node: the Task is a rebuilt instance
    replayed,        \* per node: the triples the store held at the last restart
    reqChan,         \* per node: f.dataReqtoSendChan
    pending,         \* per node: pending data requests
    lastResp,        \* what became of the last data response that arrived
    containers,      \* blob store: the containers that exist
    blobs,           \* blob store: per (container, blob), its blocks if it exists
    handles,         \* the paths of the AzureFile values OpenWriteCloser returned
    call,            \* per caller, the client call in progress and its locals
    azRet            \* what the last call of the storage client returned

storeVars == <<epochLog, epochBy, statusLog, metaLog, flagged>>
nodeVars  == <<status, pc, epoch, epochIdx, epochChanClosed, failure, shutdownCalled>>
metaVars  == <<metaIdx, metaNotified, metaCalls, refired, restarted, replayed>>
dataVars  == <<reqChan, pending, lastResp>>
azureVars == <<containers, blobs, handles, call, azRet>>
vars == <<storeVars, nodeVars, metaVars, dataVars, azureVars>>

\* ------------------------------------------------------- fmt.Sprintf("%d-%s")
DigitChars == <<"0", "1", "2", "3", "4", "5", "6", "7", "8", "9">>

RECURSIVE FormatUint(_)
FormatUint(n) ==
    IF n < 10 THEN <<DigitChars[n + 1]>>
    ELSE FormatUint(n \div 10) \o <<DigitChars[(n % 10) + 1]>>

\* Mutant: the format arguments in the wrong order ("<meta>-<epoch>").
Sprintf_MetaFirst(e, meta) == meta \o <<"-">> \o FormatUint(e)

\* value := fmt.Sprintf("%d-%s", epoch, meta)
Sprintf(e, meta) == FormatUint(e) \o <<"-">> \o meta

DigitValue(c) == (CHOOSE i \in 1..10 : DigitChars[i] = c) - 1

RECURSIVE ParseUint(_)
ParseUint(s) ==
    IF Len(s) = 0 THEN 0
    ELSE 10 * ParseUint(SubSeq(s, 1, Len(s) - 1)) + DigitValue(s[Len(s)])

IsUint(s) == Len(s) > 0 /\ \A i \in 1..Len(s) : \E d \in 1..10 : DigitChars[d] = s[i]

\* The watch side parses the stored string back into (epoch, meta): the text
\* before the first "-" is the epoch, the rest is the meta.
ParseMeta(v) ==
    IF \E i \in 1..Len(v) : v[i] = "-"
    THEN LET i == CHOOSE j \in 1..Len(v) :
                      v[j] = "-" /\ \A k \in 1..(j - 1) : v[k] # "-"
         IN  [ok |-> IsUint(SubSeq(v, 1, i - 1)),
              epoch |-> IF IsUint(SubSeq(v, 1, i - 1))
                        THEN ParseUint(SubSeq(v, 1, i - 1)) ELSE 0,
              meta |-> SubSeq(v, i + 1, Len(v))]
    ELSE [ok |-> FALSE, epoch |-> 0, meta |-> v]

\* ------------------------------------------------------------------ store
ParentMetaPath(t) == <<"parent", t>>
ChildMetaPath(t) == <<"child", t>>
MetaKeys == {ParentMetaPath(t) : t \in Tasks} \cup {ChildMetaPath(t) : t \in Tasks}
Owner(key) == key[2]

storeEpoch == epochLog[Len(epochLog)]

\* etcdutil.CASEpoch(client, name, prev, new) returns nil exactly when the
\* store is reachable and the epoch key holds prev.
CASEpochOk(up, prev) == up /\ storeEpoch = prev

\* Why a CASEpoch from prev by node n returned an error: the store could not
\* be reached, another node has moved the key on from prev (a lost race), or
\* the key does not hold prev for another reason.
CASFailure(n, up, prev) ==
    IF ~up THEN "unavailable"
    ELSE IF \E i \in 1..Len(epochBy) : epochLog[i] = prev /\ epochBy[i] # n
         THEN "lostRace"
    ELSE "mismatch"

NumFlags ==
    Len(metaLog[ParentMetaPath(0)]) + Len(metaLog[ParentMetaPath(1)])
    + Len(metaLog[ChildMetaPath(0)]) + Len(metaLog[ChildMetaPath(1)])

\* Successful writes to the epoch key and the meta keys so far.
NumWrites == (Len(epochLog) - 1) + NumFlags

\* --------------------------------------------------------------- topology
\* Task 0 is the parent of task 1 in even epochs; in odd epochs the graph
\* has no edge.
GetParents(t, e) == IF e % 2 = 0 /\ t = 1 THEN {0} ELSE {}
GetChildren(t, e) == IF e % 2 = 0 /\ t = 0 THEN {1} ELSE {}

\* ------------------------------------------------- filesystem: Azure store
\* A store path as the model holds it: a string is a sequence of characters.
Str(cnt, blob) == cnt \o <<"/">> \o blob

\* Container names of the required length, and others.
CntC == [i \in 1..ContainerNameLen |-> "c"]
CntD == [i \in 1..ContainerNameLen |-> "d"]

\* The paths and patterns the callers pass: well-formed ones, a container
\* name that is too short, a name without "/" and one with two "/"; patterns
\* with '*' and '?', with a character class and an escape, without "/", with
\* two "/", and with a class that is not closed, in either part.
GoodPaths == { Str(CntC, <<"a">>), Str(CntD, <<"b">>) }
BadPaths == { <<"c", "/", "a">>, <<"a">>, Str(CntC, <<"a", "/", "b">>) }
Paths == GoodPaths \cup BadPaths
Patterns == { <<"*", "/", "?">>, <<"*">>, <<"*", "/", "a", "/", "b">>,
              <<"[", "a", "-", "c", "]", "*", "/", "\\", "a">>,
              <<"*", "/", "[">>, <<"[", "/", "?">> }
Bytes == { "x" }

\* The goroutines that share the client; the client has no lock.
Callers == { 1, 2 }

\* The code of a character, for the order of strings and character ranges.
Code(ch) ==
    CASE ch = "*" -> 42 [] ch = "-" -> 45 [] ch = "/" -> 47 [] ch = "?" -> 63
      [] ch = "[" -> 91 [] ch = "\\" -> 92 [] ch = "]" -> 93 [] ch = "^" -> 94
      [] ch = "a" -> 97 [] ch = "b" -> 98 [] ch = "c" -> 99 [] ch = "d" -> 100
      [] ch = "x" -> 120

\* strings.Split(name, "/")
RECURSIVE Split(_)
Split(s) ==
    IF \E i \in 1..Len(s) : s[i] = "/"
    THEN LET i == CHOOSE j \in 1..Len(s) :
                      s[j] = "/" /\ \A k \in 1..(j - 1) : s[k] # "/"
         IN  <<SubSeq(s, 1, i - 1)>> \o Split(SubSeq(s, i + 1, Len(s)))
    ELSE <<s>>

\* func convertToAzurePath(name string) (string, string, error)
convertToAzurePath(name) ==
    LET afterSplit == Split(name)
    IN  IF Len(afterSplit) # 2
        THEN [cnt |-> <<>>, blob |-> <<>>, err |-> "pathSyntax"]
        ELSE IF Len(afterSplit[1]) # ContainerNameLen
        THEN [cnt |-> <<>>, blob |-> <<>>, err |-> "containerLength"]
        ELSE [cnt |-> afterSplit[1], blob |-> afterSplit[2], err |-> "nil"]

\* convertToAzurePath of the paths the callers pass, computed once.
AzurePath == [name \in Paths |-> convertToAzurePath(name)]

\* The key of a blob in the store.
Key(name) == <<AzurePath[name].cnt, AzurePath[name].blob>>
Keys == {Key(p) : p \in GoodPaths}

\* A blob of the store: whether it exists (was created or committed), its
\* committed block list and its uncommitted blocks.
NoBlob == [exists |-> FALSE, committed |-> <<>>, uncommitted |-> <<>>]
EmptyBlob == [exists |-> TRUE, committed |-> <<>>, uncommitted |-> <<>>]

\* blobClient.GetBlobUrl(container, name)
GetBlobUrl(cnt, blob) == Str(cnt, blob)

\* The order in which the store lists names.
RECURSIVE Less(_, _)
Less(s, t) ==
    IF t = <<>> THEN FALSE
    ELSE IF s = <<>> THEN TRUE
    ELSE IF s[1] # t[1] THEN Code(s[1]) < Code(t[1])
    ELSE Less(Tail(s), Tail(t))

RECURSIVE Sorted(_)
\* Sorted, with the least name m of S.
SortedFrom(S, m) == <<m>> \o Sorted(S \ {m})

Sorted(S) ==
    IF S = {} THEN <<>>
    ELSE SortedFrom(S, CHOOSE x \in S : \A y \in S \ {x} : Less(x, y))

\* path.Match, as package path computes it.
MatchBad == [rest |-> <<>>, ok |-> FALSE, err |-> "ErrBadPattern"]
RangesBad == [chunk |-> <<>>, match |-> FALSE, err |-> "ErrBadPattern"]

\* func getEsc(chunk string) (r rune, nchunk string, err error)
getEsc(chunk) ==
    IF chunk = <<>> \/ chunk[1] = "-" \/ chunk[1] = "]"
    THEN [r |-> 0, nchunk |-> <<>>, err |-> "ErrBadPattern"]
    ELSE LET c1 == IF chunk[1] = "\\" THEN Tail(chunk) ELSE chunk
         IN  IF c1 = <<>> \/ Tail(c1) = <<>>
             THEN [r |-> 0, nchunk |-> <<>>, err |-> "ErrBadPattern"]
             ELSE [r |-> Code(c1[1]), nchunk |-> Tail(c1), err |-> "nil"]

\* matchChunk, the loop that parses the ranges of a character class: r is
\* the code of the character of the name, 0 once the match has failed.
RECURSIVE parseRanges(_, _, _, _)
\* parseRanges, with the ends lo and hi of a range read.
parseRangesHi(lo, hi, r, match, nrange) ==
    IF hi.err # "nil" THEN RangesBad
    ELSE parseRanges(hi.nchunk, r, match \/ (lo.r <= r /\ r <= hi.r), nrange + 1)

\* parseRanges, with the low end lo of a range read.
parseRangesLo(lo, r, match, nrange) ==
    IF lo.err # "nil" THEN RangesBad
    ELSE parseRangesHi(lo,
                       IF lo.nchunk[1] = "-" THEN getEsc(Tail(lo.nchunk)) ELSE lo,
                       r, match, nrange)

parseRanges(chunk, r, match, nrange) ==
    IF chunk # <<>> /\ chunk[1] = "]" /\ nrange > 0
    THEN [chunk |-> Tail(chunk), match |-> match, err |-> "nil"]
    ELSE parseRangesLo(getEsc(chunk), r, match, nrange)

\* func matchChunk(chunk, s string) (rest string, ok bool, err error)
\* After the match has failed the chunk is still parsed to its end.
RECURSIVE matchChunkFrom(_, _, _)
\* matchChunk, with the ranges pr of a character class parsed.
matchClass(pr, s, failed, negated) ==
    IF pr.err # "nil" THEN MatchBad
    ELSE matchChunkFrom(pr.chunk, s, failed \/ pr.match = negated)

matchChunkFrom(chunk, s, wasFailed) ==
    IF chunk = <<>>
    THEN IF wasFailed THEN [rest |-> <<>>, ok |-> FALSE, err |-> "nil"]
         ELSE [rest |-> s, ok |-> TRUE, err |-> "nil"]
    ELSE LET failed == wasFailed \/ s = <<>>
             s1 == IF failed THEN s ELSE Tail(s)
             negated == Tail(chunk) # <<>> /\ chunk[2] = "^"
             lit == IF chunk[1] = "\\" THEN Tail(chunk) ELSE chunk
         IN  IF chunk[1] = "["
             THEN matchClass(parseRanges(IF negated THEN Tail(Tail(chunk))
                                         ELSE Tail(chunk),
                                         IF failed THEN 0 ELSE Code(s[1]),
                                         FALSE, 0),
                             s1, failed, negated)
             ELSE IF chunk[1] = "?"
             THEN matchChunkFrom(Tail(chunk), s1,
                                 IF failed THEN TRUE ELSE s[1] = "/")
             ELSE IF chunk[1] = "\\" /\ Tail(chunk) = <<>> THEN MatchBad
             ELSE matchChunkFrom(Tail(lit), s1,
                                 IF failed THEN TRUE ELSE lit[1] # s[1])

matchChunk(chunk, s) == matchChunkFrom(chunk, s, FALSE)

\* scanChunk, the scan for the end of the chunk: the first '*' outside a
\* character class.
RECURSIVE scanEnd(_, _, _)
scanEnd(pattern, i, inrange) ==
    IF i >= Len(pattern) THEN i
    ELSE LET ch == pattern[i + 1]
         IN  IF ch = "\\"
             THEN scanEnd(pattern, IF i + 1 < Len(pattern) THEN i + 2 ELSE i + 1,
                          inrange)
             ELSE IF ch = "[" THEN scanEnd(pattern, i + 1, TRUE)
             ELSE IF ch = "]" THEN scanEnd(pattern, i + 1, FALSE)
             ELSE IF ch = "*" /\ ~inrange THEN i
             ELSE scanEnd(pattern, i + 1, inrange)

\* scanChunk, the loop that skips the leading stars.
RECURSIVE skipStars(_)
skipStars(pattern) ==
    IF pattern # <<>> /\ pattern[1] = "*" THEN skipStars(Tail(pattern))
    ELSE pattern

\* scanChunk, with the pattern p after its stars and the end i of the chunk.
scanChunkAt(star, p, i) ==
    [star |-> star, chunk |-> SubSeq(p, 1, i), rest |-> SubSeq(p, i + 1, Len(p))]

\* scanChunk, with the pattern p after its stars.
scanChunkOf(star, p) == scanChunkAt(star, p, scanEnd(p, 0, FALSE))

\* func scanChunk(pattern string) (star bool, chunk, rest string)
scanChunk(pattern) ==
    scanChunkOf(pattern # <<>> /\ pattern[1] = "*", skipStars(pattern))

\* Match, the check that the rest of the pattern is well formed, made before
\* it returns false.
RECURSIVE checkRest(_)
\* checkRest, with the next chunk sc scanned.
checkRestOf(sc) ==
    IF matchChunk(sc.chunk, <<>>).err # "nil"
    THEN [matched |-> FALSE, err |-> "ErrBadPattern"]
    ELSE checkRest(sc.rest)

checkRest(pattern) ==
    IF pattern = <<>> THEN [matched |-> FALSE, err |-> "nil"]
    ELSE checkRestOf(scanChunk(pattern))

\* func Match(pattern, name string) (matched bool, err error)
\* '*' and '?' do not match '/'.
RECURSIVE Match(_, _)
\* Match, whether the result m of matching a chunk sc at a place of the name
\* ends the search of that place: the chunk matches (and, if it is the last
\* chunk, exhausts the name), or it is malformed.
matchFound(sc, m) == m.ok /\ ~(sc.rest = <<>> /\ m.rest # <<>>)
matchStops(sc, m) == matchFound(sc, m) \/ (~m.ok /\ m.err # "nil")

\* Match, going on after the result m that ended the search.
matchAfter(sc, m) ==
    IF matchFound(sc, m) THEN Match(sc.rest, m.rest)
    ELSE [matched |-> FALSE, err |-> m.err]

\* Match, the chunk sc matched after skipping i + 1 characters of the name.
matchSkip(sc, name, i) == matchChunk(sc.chunk, SubSeq(name, i + 2, Len(name)))

\* Match, the loop after a '*': the chunk is looked for after skipping i + 1
\* characters, none of them '/', for i = 0, 1, ...; stops are the i at which
\* the search ends.
matchStar(sc, name, stops) ==
    IF stops = {} THEN checkRest(sc.rest)
    ELSE matchAfter(sc, matchSkip(sc, name,
                                  CHOOSE i \in stops : \A j \in stops : i <= j))

\* Match, with the chunk sc scanned and m the result of matching it at the
\* start of the name.
matchScanned(sc, name, m) ==
    IF sc.star /\ sc.chunk = <<>>
    THEN [matched |-> \A i \in 1..Len(name) : name[i] # "/", err |-> "nil"]
    ELSE IF m.ok /\ (m.rest = <<>> \/ sc.rest # <<>>)
    THEN Match(sc.rest, m.rest)
    ELSE IF m.err # "nil" THEN [matched |-> FALSE, err |-> m.err]
    ELSE IF sc.star
    THEN matchStar(sc, name,
                   { i \in 0..(Len(name) - 1) :
                       /\ \A j \in 0..i : name[j + 1] # "/"
                       /\ matchStops(sc, matchSkip(sc, name, i)) })
    ELSE checkRest(sc.rest)

\* Match, with the chunk sc scanned.
matchChunkOf(sc, name) == matchScanned(sc, name, matchChunk(sc.chunk, name))

Match(pattern, name) ==
    IF pattern = <<>> THEN [matched |-> name = <<>>, err |-> "nil"]
    ELSE matchChunkOf(scanChunk(pattern), name)

\* A caller that is in no call.
Idle == [pc |-> "idle"]

\* What a call returned: the operation, its error and its value.
Ret(op, err, val) == [op |-> op, err |-> err, val |-> val]

\* ------------------------------------------------------------------- node
GetTaskID(n) == n
GetEpoch(n) == epoch[n]

Running(n) == status[n] = "running"
\* The Task's callbacks run on the event loop; the Task calls the framework
\* from there.
CanCall(n) == Running(n) /\ pc[n] = "idle"

\* An empty slot of the pending-request table.
NoRequest == [taskID |-> 0, epoch |-> 0, req |-> "", asked |-> 0, set |-> FALSE]

Init ==
    /\ epochLog = <<0>>
    /\ epochBy = <<>>
    /\ statusLog = <<>>
    /\ metaLog = [k \in MetaKeys |-> <<>>]
    /\ flagged = [k \in MetaKeys |-> <<>>]
    /\ status = [n \in Tasks |-> "running"]
    /\ pc = [n \in Tasks |-> "idle"]
    /\ epoch = [n \in Tasks |-> 0]
    /\ epochIdx = [n \in Tasks |-> 1]
    /\ epochChanClosed = [n \in Tasks |-> FALSE]
    /\ failure = [n \in Tasks |-> "none"]
    /\ shutdownCalled = [n \in Tasks |-> FALSE]
    /\ metaIdx = [n \in Tasks |-> [k \in MetaKeys |-> 0]]
    /\ metaNotified = [n \in Tasks |-> {}]
    /\ metaCalls = [n \in Tasks |-> <<>>]
    /\ refired = [n \in Tasks |-> {}]
    /\ restarted = [n \in Tasks |-> FALSE]
    /\ replayed = [n \in Tasks |-> {}]
    /\ reqChan = [n \in Tasks |-> <<>>]
    /\ pending = [n \in Tasks |-> [t \in Tasks |-> NoRequest]]
    /\ lastResp = [kind |-> "none"]
    /\ containers = {}
    /\ blobs = [k \in Keys |-> NoBlob]
    /\ handles = {}
    /\ call = [c \in Callers |-> Idle]
    /\ azRet = Ret("none", "nil", FALSE)

\* log.Fatalf: the process logs and exits.
Fatalf(n, why) ==
    /\ status' = [status EXCEPT ![n] = "fatal"]
    /\ failure' = [failure EXCEPT ![n] = why]

\* panic(...): nothing in the framework recovers it; the process dies.
Panic(n, why) ==
    /\ status' = [status EXCEPT ![n] = "panicked"]
    /\ failure' = [failure EXCEPT ![n] = why]

\* -------------------------------------------------------- epoch coordinator
\* func (f *framework) incEpoch(epoch uint64)
incEpoch(n, e, up) ==
    /\ CanCall(n)
    /\ IF CASEpochOk(up, e)
       THEN /\ NumWrites < MaxWrites
            /\ epochLog' = Append(epochLog, Wrap(e + 1))
            /\ epochBy' = Append(epochBy, n)
            /\ UNCHANGED <<status, failure>>
       ELSE /\ Fatalf(n, CASFailure(n, up, e))
            /\ UNCHANGED <<epochLog, epochBy>>
    /\ UNCHANGED <<statusLog, metaLog, flagged, pc, epoch, epochIdx,
                   epochChanClosed, shutdownCalled, metaVars, dataVars,
                   azureVars>>

\* func (f *framework) ShutdownJob(), up to the CASEpoch call
ShutdownJob(n, up) ==
    /\ CanCall(n)
    /\ IF CASEpochOk(up, epoch[n])
       THEN /\ NumWrites < MaxWrites
            /\ epochLog' = Append(epochLog, exitEpoch)
            /\ epochBy' = Append(epochBy, n)
            /\ pc' = [pc EXCEPT ![n] = "SetJobStatus"]
            /\ UNCHANGED <<status, failure>>
       ELSE /\ Panic(n, CASFailure(n, up, epoch[n]))
            /\ UNCHANGED <<epochLog, epochBy, pc>>
    /\ shutdownCalled' = [shutdownCalled EXCEPT ![n] = TRUE]
    /\ UNCHANGED <<statusLog, metaLog, flagged, epoch, epochIdx,
                   epochChanClosed, metaVars, dataVars,
                   azureVars>>

\* ShutdownJob, the SetJobStatus call
ShutdownJobSetStatus(n, up) ==
    /\ Running(n)
    /\ pc[n] = "SetJobStatus"
    /\ pc' = [pc EXCEPT ![n] = "idle"]
    /\ IF up
       THEN /\ statusLog' = Append(statusLog, n)
            /\ UNCHANGED <<status, failure>>
       ELSE /\ Panic(n, "unavailable")
            /\ UNCHANGED statusLog
    /\ UNCHANGED <<epochLog, epochBy, metaLog, flagged, epoch, epochIdx,
                   epochChanClosed, shutdownCalled, metaVars, dataVars,
                   azureVars>>

\* Mutant: the event loop adopts the terminal epoch and keeps running.
EpochWatch_NoExit(n) ==
    /\ CanCall(n)
    /\ ~epochChanClosed[n]
    /\ epochIdx[n] < Len(epochLog)
    /\ epochIdx' = [epochIdx EXCEPT ![n] = @ + 1]
    /\ epoch' = [epoch EXCEPT ![n] = epochLog[epochIdx[n] + 1]]
    /\ UNCHANGED <<storeVars, status, pc, epochChanClosed, failure, shutdownCalled,
                   metaVars, dataVars,
                   azureVars>>

\* The epoch watch delivers the next value of the epoch key to the event
\* loop, which adopts it and exits on the terminal epoch.
EpochWatch(n) ==
    /\ CanCall(n)
    /\ ~epochChanClosed[n]
    /\ epochIdx[n] < Len(epochLog)
    /\ epochIdx' = [epochIdx EXCEPT ![n] = @ + 1]
    /\ epoch' = [epoch EXCEPT ![n] = epochLog[epochIdx[n] + 1]]
    /\ status' = [status EXCEPT ![n] =
                    IF epochLog[epochIdx[n] + 1] = exitEpoch THEN "exited" ELSE @]
    /\ UNCHANGED <<storeVars, pc, epochChanClosed, failure, shutdownCalled,
                   metaVars, dataVars,
                   azureVars>>

\* Mutant: stopping the node also moves the job's epoch to the terminal value.
stop_SetsExitEpoch(n) ==
    /\ Running(n)
    /\ IF epochChanClosed[n]
       THEN /\ Panic(n, "closeOfClosedChannel")
            /\ UNCHANGED <<epochChanClosed, epochLog, epochBy>>
       ELSE /\ NumWrites < MaxWrites
            /\ epochChanClosed' = [epochChanClosed EXCEPT ![n] = TRUE]
            /\ epochLog' = Append(epochLog, exitEpoch)
            /\ epochBy' = Append(epochBy, n)
            /\ UNCHANGED <<status, failure>>
    /\ UNCHANGED <<statusLog, metaLog, flagged, pc, epoch, epochIdx, shutdownCalled,
                   metaVars, dataVars,
                   azureVars>>

\* func (f *framework) stop() / Kill(): close(f.epochChan)
stop(n) ==
    /\ Running(n)
    /\ IF epochChanClosed[n]
       THEN /\ Panic(n, "closeOfClosedChannel")
            /\ UNCHANGED epochChanClosed
       ELSE /\ epochChanClosed' = [epochChanClosed EXCEPT ![n] = TRUE]
            /\ UNCHANGED <<status, failure>>
    /\ UNCHANGED <<storeVars, pc, epoch, epochIdx, shutdownCalled,
                   metaVars, dataVars,
                   azureVars>>

Kill(n) == stop(n)

\* The event loop receives from the closed epoch channel and returns.
EventLoopExit(n) ==
    /\ CanCall(n)
    /\ epochChanClosed[n]
    /\ status' = [status EXCEPT ![n] = "killed"]
    /\ UNCHANGED <<storeVars, pc, epoch, epochIdx, epochChanClosed, failure,
                   shutdownCalled, metaVars, dataVars,
                   azureVars>>

\* ------------------------------------------------- meta notification protocol
\* Mutant: the error of etcdClient.Set is logged and the node carries on.
SetMeta_IgnoreErr(n, key, value, e, meta, up) ==
    /\ CanCall(n)
    /\ IF up
       THEN /\ NumWrites < MaxWrites
            /\ metaLog' = [metaLog EXCEPT ![key] = Append(@, value)]
            /\ flagged' = [flagged EXCEPT ![key] = Append(@, <<e, meta>>)]
            /\ UNCHANGED failure
       ELSE /\ failure' = [failure EXCEPT ![n] = "unavailable"]
            /\ UNCHANGED <<metaLog, flagged>>
    /\ UNCHANGED <<epochLog, epochBy, statusLog, status, pc, epoch, epochIdx,
                   epochChanClosed, shutdownCalled, metaVars, dataVars,
                   azureVars>>

\* _, err := f.etcdClient.Set(path, value, 0); if err != nil { f.log.Fatalf }
SetMeta(n, key, value, e, meta, up) ==
    /\ CanCall(n)
    /\ IF up
       THEN /\ NumWrites < MaxWrites
            /\ metaLog' = [metaLog EXCEPT ![key] = Append(@, value)]
            /\ flagged' = [flagged EXCEPT ![key] = Append(@, <<e, meta>>)]
            /\ UNCHANGED <<status, failure>>
       ELSE /\ Fatalf(n, "unavailable")
            /\ UNCHANGED <<metaLog, flagged>>
    /\ UNCHANGED <<epochLog, epochBy, statusLog, pc, epoch, epochIdx,
                   epochChanClosed, shutdownCalled, metaVars, dataVars,
                   azureVars>>

\* Mutant: the value carries the node's current epoch, not the epoch argument.
flagMetaToParent_LocalEpoch(n, meta, e, up) ==
    SetMeta(n, ParentMetaPath(GetTaskID(n)), Sprintf(GetEpoch(n), meta), e, meta, up)

\* func (f *framework) flagMetaToParent(meta string, epoch uint64)
flagMetaToParent(n, meta, e, up) ==
    SetMeta(n, ParentMetaPath(GetTaskID(n)), Sprintf(e, meta), e, meta, up)

\* func (f *framework) flagMetaToChild(meta string, epoch uint64)
flagMetaToChild(n, meta, e, up) ==
    SetMeta(n, ChildMetaPath(GetTaskID(n)), Sprintf(e, meta), e, meta, up)

\* Mutant: the watches set up in the first epoch are never torn down.
WatchedKeys_Stale(n) ==
    {ParentMetaPath(c) : c \in GetChildren(n, 0)}
    \cup {ChildMetaPath(p) : p \in GetParents(n, 0)}

\* The keys a node watches: the parent-meta key of each of its children and
\* the child-meta key of each of its parents, in the topology of its epoch.
WatchedKeys(n) ==
    {ParentMetaPath(c) : c \in GetChildren(n, epoch[n])}
    \cup {ChildMetaPath(p) : p \in GetParents(n, epoch[n])}

Inc(f, t) ==
    [x \in DOMAIN f \cup {t} |->
        IF x = t THEN (IF t \in DOMAIN f THEN f[t] + 1 ELSE 1) ELSE f[x]]

\* Delivery rule: an event whose triple is in the notified-set is discarded;
\* otherwise the triple is marked and the Task's callback is invoked.
HandleMeta(st, key, value) ==
    LET p == ParseMeta(value)
        t == <<Owner(key), p.epoch, p.meta>>
    IN  IF ~p.ok \/ t \in st.notified
        THEN st
        ELSE [notified |-> st.notified \cup {t}, calls |-> Inc(st.calls, t)]

TripleOf(key, value) ==
    LET p == ParseMeta(value) IN <<Owner(key), p.epoch, p.meta>>

\* Mutant: the watch hands over any value the key has held, in any order.
MetaWatch_AnyOrder(n, key, i) ==
    /\ CanCall(n)
    /\ key \in WatchedKeys(n)
    /\ i \in 1..Len(metaLog[key])
    /\ LET st == HandleMeta([notified |-> metaNotified[n], calls |-> metaCalls[n]],
                            key, metaLog[key][i])
       IN  /\ metaNotified' = [metaNotified EXCEPT ![n] = st.notified]
           /\ metaCalls' = [metaCalls EXCEPT ![n] = st.calls]
    /\ metaIdx' = [metaIdx EXCEPT ![n][key] = i]
    /\ refired' = [refired EXCEPT ![n] =
                     IF TripleOf(key, metaLog[key][i]) \in DOMAIN metaCalls[n]
                     THEN @ \cup {TripleOf(key, metaLog[key][i])} ELSE @]
    /\ UNCHANGED <<storeVars, nodeVars, restarted, replayed, dataVars,
                   azureVars>>

\* A watch fires at node n with entry i of a watched key: the next value,
\* or once more the value it delivered last.
MetaWatch(n, key, i) ==
    /\ CanCall(n)
    /\ key \in WatchedKeys(n)
    /\ i \in 1..Len(metaLog[key])
    /\ i \in {metaIdx[n][key], metaIdx[n][key] + 1}
    /\ LET st == HandleMeta([notified |-> metaNotified[n], calls |-> metaCalls[n]],
                            key, metaLog[key][i])
       IN  /\ metaNotified' = [metaNotified EXCEPT ![n] = st.notified]
           /\ metaCalls' = [metaCalls EXCEPT ![n] = st.calls]
    /\ metaIdx' = [metaIdx EXCEPT ![n][key] = i]
    /\ refired' = [refired EXCEPT ![n] =
                     IF TripleOf(key, metaLog[key][i]) \in DOMAIN metaCalls[n]
                     THEN @ \cup {TripleOf(key, metaLog[key][i])} ELSE @]
    /\ UNCHANGED <<storeVars, nodeVars, restarted, replayed, dataVars,
                   azureVars>>

RECURSIVE Replay(_, _)
Replay(st, keys) ==
    IF keys = {} THEN st
    ELSE LET k == CHOOSE x \in keys : TRUE
         IN  Replay(HandleMeta(st, k, metaLog[k][Len(metaLog[k])]), keys \ {k})

\* Restart supervisor: the failed Task is replaced by a fresh one, the
\* notified-set starts empty, and the most recent meta of each relevant peer
\* is delivered again.
Restart(n) ==
    /\ CanCall(n)
    /\ LET keys == {k \in WatchedKeys(n) : Len(metaLog[k]) > 0}
           st == Replay([notified |-> {}, calls |-> <<>>], keys)
       IN  /\ metaNotified' = [metaNotified EXCEPT ![n] = st.notified]
           /\ metaCalls' = [metaCalls EXCEPT ![n] = st.calls]
           /\ metaIdx' = [metaIdx EXCEPT ![n] =
                            [k \in MetaKeys |-> IF k \in keys THEN Len(metaLog[k]) ELSE @[k]]]
           /\ replayed' = [replayed EXCEPT ![n] =
                             {<<Owner(k), flagged[k][Len(flagged[k])][1],
                                flagged[k][Len(flagged[k])][2]>> : k \in keys}]
    /\ restarted' = [restarted EXCEPT ![n] = TRUE]
    /\ refired' = [refired EXCEPT ![n] = {}]
    /\ UNCHANGED <<storeVars, nodeVars, dataVars,
                   azureVars>>

\* ------------------------------------------------------- data exchange router
\* The record dataRequest sends; asked keeps, next to the stamped epoch, the
\* epoch argument of the call, the epoch the Task captured.
Request(toID, req, stamp, e) ==
    [taskID |-> toID, epoch |-> stamp, req |-> req, asked |-> e, set |-> TRUE]

\* f.dataReqtoSendChan <- r: the send completes when the channel has room;
\* otherwise the calling goroutine, the event loop, stays in the send.
ChanSend(n, r) ==
    /\ CanCall(n)
    /\ IF Len(reqChan[n]) < ChanCap
       THEN /\ reqChan' = [reqChan EXCEPT ![n] = Append(@, r)]
            /\ UNCHANGED pc
       ELSE /\ pc' = [pc EXCEPT ![n] = "dataRequest"]
            /\ UNCHANGED reqChan
    /\ UNCHANGED <<storeVars, status, epoch, epochIdx, epochChanClosed, failure,
                   shutdownCalled, metaVars, pending, lastResp,
                   azureVars>>

\* Mutant: the epoch field of the request is left out and keeps its zero
\* value.
dataRequest_NoEpoch(n, toID, req, e) ==
    ChanSend(n, Request(toID, req, 0, e))

\* Mutant: the request is stamped with the epoch after the one passed in.
dataRequest_NextEpoch(n, toID, req, e) ==
    ChanSend(n, Request(toID, req, Wrap(e + 1), e))

\* func (f *framework) dataRequest(toID uint64, req string, epoch uint64)
dataRequest(n, toID, req, e) ==
    ChanSend(n, Request(toID, req, e, e))

\* requestData(toTaskID, requestPayload): the Task's call, made from a
\* callback on the event loop, so that the epoch does not change during the
\* call; the epoch handed to dataRequest is the node's current epoch.
requestData(n, toID, req) == dataRequest(n, toID, req, GetEpoch(n))

\* The event loop takes a request from the channel, files it in the pending
\* table under (fromTaskID, toTaskID) and hands it to the transport.
SendRequest(n) ==
    /\ CanCall(n)
    /\ Len(reqChan[n]) > 0
    /\ reqChan' = [reqChan EXCEPT ![n] = Tail(@)]
    /\ pending' = [pending EXCEPT ![n][Head(reqChan[n]).taskID] = Head(reqChan[n])]
    /\ UNCHANGED <<storeVars, nodeVars, metaVars, lastResp,
                   azureVars>>

\* Mutant: a response is handed to the Task whatever its epoch.
onDataResponse_AnyEpoch(n, from, e) ==
    /\ CanCall(n)
    /\ IF pending[n][from].set
       THEN /\ pending' = [pending EXCEPT ![n][from] = NoRequest]
            /\ lastResp' = [kind |-> "delivered", node |-> n, from |-> from,
                            epoch |-> e, request |-> pending[n][from],
                            live |-> epoch[n]]
       ELSE /\ lastResp' = [kind |-> "dropped", node |-> n, from |-> from,
                            epoch |-> e, request |-> pending[n][from],
                            live |-> epoch[n]]
            /\ UNCHANGED pending
    /\ UNCHANGED <<storeVars, nodeVars, metaVars, reqChan,
                   azureVars>>

\* onDataResponse: a response from peer `from` tagged with epoch e is matched
\* to the pending request for that peer and must carry the request's epoch;
\* a match is handed to the Task and removed, anything else is dropped.
onDataResponse(n, from, e) ==
    /\ CanCall(n)
    /\ IF pending[n][from].set /\ pending[n][from].epoch = e
       THEN /\ pending' = [pending EXCEPT ![n][from] = NoRequest]
            /\ lastResp' = [kind |-> "delivered", node |-> n, from |-> from,
                            epoch |-> e, request |-> pending[n][from],
                            live |-> epoch[n]]
       ELSE /\ lastResp' = [kind |-> "dropped", node |-> n, from |-> from,
                            epoch |-> e, request |-> pending[n][from],
                            live |-> epoch[n]]
            /\ UNCHANGED pending
    /\ UNCHANGED <<storeVars, nodeVars, metaVars, reqChan,
                   azureVars>>

\* --------------------------------------- filesystem: Azure client, operations
\* Every store call is a step of its own: the client has no lock, the store
\* is shared, and the calls of the callers interleave.  up tells whether the
\* call reaches the store.  A panic ends the process of all callers.
Alive == azRet.err # "panic"
Ready(c) == Alive /\ call[c].pc = "idle"
At(c, at) == Alive /\ call[c].pc = at

\* The calls of the other callers after a store call of c: a Rename in
\* progress one of whose two blobs the call changed is no longer undisturbed.
Others(c) ==
    [d \in Callers |->
        IF /\ d # c /\ call[d].pc \in {"CopyBlob", "DeleteBlob"}
           /\ \/ blobs'[Key(call[d].old)] # blobs[Key(call[d].old)]
              \/ blobs'[Key(call[d].new)] # blobs[Key(call[d].new)]
        THEN [call[d] EXCEPT !.clean = FALSE]
        ELSE call[d]]

\* The call of c goes on to its next store call, or returns.
Continue(c, rec) == call' = [Others(c) EXCEPT ![c] = rec] /\ UNCHANGED azRet
Return(c, ret) == call' = [Others(c) EXCEPT ![c] = Idle] /\ azRet' = ret

\* func (c *AzureClient) Exists(name string) (bool, error)
\* as a function of the store.
ExistsResult(name, up) ==
    LET p == AzurePath[name]
    IN  IF p.err # "nil" THEN [val |-> FALSE, err |-> p.err]
        ELSE IF ~up THEN [val |-> FALSE, err |-> "store"]
        ELSE [val |-> blobs[Key(name)].exists, err |-> "nil"]

Exists(c, name, up) ==
    /\ Ready(c)
    /\ UNCHANGED <<containers, blobs, handles>>
    /\ Return(c, Ret("Exists", ExistsResult(name, up).err,
                     ExistsResult(name, up).val))
    /\ UNCHANGED <<storeVars, nodeVars, metaVars, dataVars>>

\* func (c *AzureClient) Rename(oldpath, newpath string) error, up to the
\* CopyBlob call.  clean is history: whether no other call has changed one
\* of the two blobs since the call began.
Rename(c, oldpath, newpath, up) ==
    /\ Ready(c)
    /\ UNCHANGED <<containers, blobs, handles>>
    /\ LET e == ExistsResult(oldpath, up)
           dst == AzurePath[newpath]
       IN  IF e.err # "nil"
           THEN Return(c, Ret("Rename", e.err, FALSE))
           ELSE IF ~e.val
           THEN Return(c, Ret("Rename", "notExist", FALSE))
           ELSE IF dst.err # "nil"
           THEN Return(c, Ret("Rename", dst.err, FALSE))
           ELSE Continue(c, [pc |-> "CopyBlob", old |-> oldpath, new |-> newpath,
                             clean |-> TRUE])
    /\ UNCHANGED <<storeVars, nodeVars, metaVars, dataVars>>

\* blobClient.CopyBlob succeeds when the store is reached, the destination
\* container exists and the source blob exists.
CopyBlobOk(r, up) ==
    up /\ Key(r.new)[1] \in containers /\ blobs[Key(r.old)].exists

\* The store after CopyBlob.
CopyBlob(r) ==
    [blobs EXCEPT ![Key(r.new)] =
        IF r.new = r.old THEN @
        ELSE [exists |-> TRUE, committed |-> blobs[Key(r.old)].committed,
              uncommitted |-> <<>>]]

\* Mutant: the error of CopyBlob is dropped and the source is deleted anyway.
RenameCopyBlob_IgnoreErr(c, up) ==
    /\ At(c, "CopyBlob")
    /\ LET r == call[c]
       IN  /\ blobs' = IF CopyBlobOk(r, up) THEN CopyBlob(r) ELSE blobs
           /\ IF GetBlobUrl(Key(r.new)[1], Key(r.new)[2])
                    # GetBlobUrl(Key(r.old)[1], Key(r.old)[2])
              THEN Continue(c, [r EXCEPT !.pc = "DeleteBlob"])
              ELSE Return(c, Ret("Rename", "nil", FALSE))
    /\ UNCHANGED <<containers, handles>>
    /\ UNCHANGED <<storeVars, nodeVars, metaVars, dataVars>>

\* Rename: err = c.blobClient.CopyBlob(dstContainerName, dstBlobName, srcBlobUrl)
RenameCopyBlob(c, up) ==
    /\ At(c, "CopyBlob")
    /\ LET r == call[c]
       IN  IF CopyBlobOk(r, up)
           THEN /\ blobs' = CopyBlob(r)
                /\ IF GetBlobUrl(Key(r.new)[1], Key(r.new)[2])
                         # GetBlobUrl(Key(r.old)[1], Key(r.old)[2])
                   THEN Continue(c, [r EXCEPT !.pc = "DeleteBlob"])
                   ELSE Return(c, Ret("Rename", "nil", FALSE))
           ELSE /\ UNCHANGED blobs
                /\ Return(c, Ret("Rename", "store", FALSE))
    /\ UNCHANGED <<containers, handles>>
    /\ UNCHANGED <<storeVars, nodeVars, metaVars, dataVars>>

\* Rename: err = c.blobClient.DeleteBlob(srcContainerName, srcBlobName)
\* DeleteBlob fails when the store is not reached or the blob does not exist.
RenameDeleteBlob(c, up) ==
    /\ At(c, "DeleteBlob")
    /\ LET r == call[c]
       IN  IF up /\ blobs[Key(r.old)].exists
           THEN /\ blobs' = [blobs EXCEPT ![Key(r.old)] = NoBlob]
                /\ Return(c, Ret("Rename", "nil", FALSE))
           ELSE /\ UNCHANGED blobs
                /\ Return(c, Ret("Rename", "store", FALSE))
    /\ UNCHANGED <<containers, handles>>
    /\ UNCHANGED <<storeVars, nodeVars, metaVars, dataVars>>

\* func (c *AzureClient) OpenReadCloser(name string) (io.ReadCloser, error)
\* GetBlob fails when the store is not reached or the blob does not exist.
OpenReadCloser(c, name, up) ==
    /\ Ready(c)
    /\ UNCHANGED <<containers, blobs, handles>>
    /\ LET p == AzurePath[name]
       IN  Return(c,
             IF p.err # "nil" THEN Ret("OpenReadCloser", p.err, <<>>)
             ELSE IF ~up \/ ~blobs[Key(name)].exists
                  THEN Ret("OpenReadCloser", "store", <<>>)
             ELSE Ret("OpenReadCloser", "nil", blobs[Key(name)].committed))
    /\ UNCHANGED <<storeVars, nodeVars, metaVars, dataVars>>

\* func (c *AzureClient) OpenWriteCloser(name string) (io.WriteCloser, error),
\* up to the CreateContainerIfNotExists call
OpenWriteCloser(c, name, up) ==
    /\ Ready(c)
    /\ UNCHANGED <<containers, blobs>>
    /\ LET e == ExistsResult(name, up)
       IN  IF e.err # "nil"
           THEN /\ Return(c, Ret("OpenWriteCloser", e.err, FALSE))
                /\ UNCHANGED handles
           ELSE IF e.val
           THEN /\ Return(c, Ret("OpenWriteCloser", "nil", TRUE))
                /\ handles' = handles \cup {name}
           ELSE /\ Continue(c, [pc |-> "CreateContainerIfNotExists", name |-> name])
                /\ UNCHANGED handles
    /\ UNCHANGED <<storeVars, nodeVars, metaVars, dataVars>>

\* OpenWriteCloser: _, err = c.blobClient.CreateContainerIfNotExists(...)
OpenWriteCloserCreateContainerIfNotExists(c, up) ==
    /\ At(c, "CreateContainerIfNotExists")
    /\ UNCHANGED <<blobs, handles>>
    /\ LET r == call[c]
       IN  IF up
           THEN /\ containers' = containers \cup {Key(r.name)[1]}
                /\ Continue(c, [r EXCEPT !.pc = "CreateBlockBlob"])
           ELSE /\ UNCHANGED containers
                /\ Return(c, Ret("OpenWriteCloser", "store", FALSE))
    /\ UNCHANGED <<storeVars, nodeVars, metaVars, dataVars>>

\* OpenWriteCloser: err = c.blobClient.CreateBlockBlob(containerName, blobName)
\* CreateBlockBlob replaces a blob that another caller has created since the
\* Exists call by an empty one.
OpenWriteCloserCreateBlockBlob(c, up) ==
    /\ At(c, "CreateBlockBlob")
    /\ UNCHANGED containers
    /\ LET r == call[c]
       IN  IF up
           THEN /\ blobs' = [blobs EXCEPT ![Key(r.name)] = EmptyBlob]
                /\ handles' = handles \cup {r.name}
                /\ Return(c, Ret("OpenWriteCloser", "nil", TRUE))
           ELSE /\ UNCHANGED <<blobs, handles>>
                /\ Return(c, Ret("OpenWriteCloser", "store", FALSE))
    /\ UNCHANGED <<storeVars, nodeVars, metaVars, dataVars>>

\* blobClient.GetBlockList succeeds when the store is reached and the blob
\* exists or has uncommitted blocks.
GetBlockListOk(k, up) ==
    up /\ (blobs[k].exists \/ blobs[k].uncommitted # <<>>)

\* func (f *AzureFile) Write(b []byte) (int, error), f.path = path, up to the
\* PutBlock call.  The block id is made of the number of blocks listed here.
Write(c, path, b, up) ==
    /\ Ready(c)
    /\ path \in handles
    /\ UNCHANGED <<containers, blobs, handles>>
    /\ LET p == AzurePath[path]
           blocksLen == Len(blobs[Key(path)].committed)
                          + Len(blobs[Key(path)].uncommitted)
       IN  IF p.err # "nil"
           THEN Return(c, Ret("Write", "nil", 0))
           ELSE IF ~GetBlockListOk(Key(path), up)
           THEN Return(c, Ret("Write", "nil", 0))
           ELSE /\ blocksLen < MaxBlocks
                /\ Continue(c, [pc |-> "PutBlock", path |-> path, b |-> b,
                                blockId |-> blocksLen - 1])
    /\ UNCHANGED <<storeVars, nodeVars, metaVars, dataVars>>

\* blobClient.PutBlock: the block joins the uncommitted blocks of the blob,
\* in the place of an uncommitted block of the same id if there is one.
PutBlock(blob, blockId, b) ==
    [blob EXCEPT !.uncommitted =
        IF \E i \in 1..Len(@) : @[i].id = blockId
        THEN [i \in 1..Len(@) |->
                 IF @[i].id = blockId THEN [id |-> blockId, data |-> b] ELSE @[i]]
        ELSE Append(@, [id |-> blockId, data |-> b])]

\* Write: err = f.client.PutBlock(cnt, blob, blockId, b)
WritePutBlock(c, up) ==
    /\ At(c, "PutBlock")
    /\ UNCHANGED <<containers, handles>>
    /\ LET r == call[c]
           put == PutBlock(blobs[Key(r.path)], r.blockId, r.b)
       IN  IF up
           THEN /\ Len(put.committed) + Len(put.uncommitted) <= MaxBlocks
                /\ blobs' = [blobs EXCEPT ![Key(r.path)] = put]
                /\ Continue(c, [pc |-> "GetBlockList", path |-> r.path])
           ELSE /\ UNCHANGED blobs
                /\ Return(c, Ret("Write", "store", 0))
    /\ UNCHANGED <<storeVars, nodeVars, metaVars, dataVars>>

\* Write: blockList, err = f.client.GetBlockList(...) after PutBlock, and the
\* amendList made of it: the committed blocks, then the uncommitted ones.
WriteGetBlockList(c, up) ==
    /\ At(c, "GetBlockList")
    /\ UNCHANGED <<containers, blobs, handles>>
    /\ LET r == call[c]
           blob == blobs[Key(r.path)]
           amendList ==
               [i \in 1..Len(blob.committed) |->
                   [id |-> blob.committed[i].id, status |-> "Committed"]]
               \o [i \in 1..Len(blob.uncommitted) |->
                   [id |-> blob.uncommitted[i].id, status |-> "Uncommitted"]]
       IN  IF GetBlockListOk(Key(r.path), up)
           THEN Continue(c, [pc |-> "PutBlockList", path |-> r.path,
                             amendList |-> amendList])
           ELSE Return(c, Ret("Write", "store", 0))
    /\ UNCHANGED <<storeVars, nodeVars, metaVars, dataVars>>

\* The block of a blob an entry of a block list names, <<>> if there is none.
BlockOf(blob, entry) ==
    LET from == IF entry.status = "Committed" THEN blob.committed
                ELSE blob.uncommitted
    IN  SelectSeq(from, LAMBDA x : x.id = entry.id)

\* Write: err = f.client.PutBlockList(cnt, blob, amendList)
\* PutBlockList fails when the store is not reached or a block of the list
\* is not where the list says; the blocks not in the list are dropped.
WritePutBlockList(c, up) ==
    /\ At(c, "PutBlockList")
    /\ UNCHANGED <<containers, handles>>
    /\ LET r == call[c]
           blob == blobs[Key(r.path)]
       IN  IF up /\ \A i \in 1..Len(r.amendList) : BlockOf(blob, r.amendList[i]) # <<>>
           THEN /\ blobs' = [blobs EXCEPT ![Key(r.path)] =
                               [exists |-> TRUE,
                                committed |-> [i \in 1..Len(r.amendList) |->
                                                  BlockOf(blob, r.amendList[i])[1]],
                                uncommitted |-> <<>>]]
                /\ Return(c, Ret("Write", "nil", 0))
           ELSE /\ UNCHANGED blobs
                /\ Return(c, Ret("Write", "store", 0))
    /\ UNCHANGED <<storeVars, nodeVars, metaVars, dataVars>>

\* Glob, the loop over the containers up to the next ListBlobs call.
RECURSIVE GlobContainers(_, _)
\* GlobContainers, with m the result of matching the first container's name.
GlobContainer(m, cntPattern, cnts) ==
    IF m.err # "nil" THEN [err |-> m.err, list |-> FALSE, cnts |-> <<>>]
    ELSE IF ~m.matched THEN GlobContainers(cntPattern, Tail(cnts))
    ELSE [err |-> "nil", list |-> TRUE, cnts |-> cnts]

GlobContainers(cntPattern, cnts) ==
    IF cnts = <<>> THEN [err |-> "nil", list |-> FALSE, cnts |-> <<>>]
    ELSE GlobContainer(Match(cntPattern, Head(cnts)), cntPattern, cnts)

\* Glob, the loop over the blobs of a container.
RECURSIVE GlobBlobs(_, _, _, _)
\* GlobBlobs, with m the result of matching the first blob's name.
GlobBlob(m, blobPattern, cnt, names, matches) ==
    IF m.err # "nil" THEN [err |-> m.err, matches |-> <<>>]
    ELSE GlobBlobs(blobPattern, cnt, Tail(names),
                   IF m.matched THEN Append(matches, Str(cnt, Head(names)))
                   ELSE matches)

GlobBlobs(blobPattern, cnt, names, matches) ==
    IF names = <<>> THEN [err |-> "nil", matches |-> matches]
    ELSE GlobBlob(Match(blobPattern, Head(names)), blobPattern, cnt, names, matches)

\* Glob goes on after the loop over the containers returned n: to the
\* ListBlobs call of the first container that matches, or it returns.
GlobNext(c, pattern, n, matches) ==
    IF n.err # "nil" THEN Return(c, Ret("Glob", n.err, <<>>))
    ELSE IF n.list
    THEN Continue(c, [pc |-> "ListBlobs", pattern |-> pattern,
                      cnts |-> n.cnts, matches |-> matches])
    ELSE Return(c, Ret("Glob", "nil", matches))

\* Glob, with the pattern split.
GlobSplit(c, pattern, afterSplit, up) ==
    IF Len(afterSplit) < 2 THEN Return(c, Ret("Glob", "panic", <<>>))
    ELSE IF Len(afterSplit) # 2 THEN Return(c, Ret("Glob", "pathSyntax", <<>>))
    ELSE IF ~up THEN Return(c, Ret("Glob", "store", <<>>))
    ELSE GlobNext(c, pattern,
                  GlobContainers(afterSplit[1], Sorted(containers)), <<>>)

\* func (c *AzureClient) Glob(pattern string) (matches []string, err error),
\* up to the first ListBlobs call.  afterSplit[1] is read before the length
\* of afterSplit is checked: with fewer than two parts the index is out of
\* range and the goroutine panics.
Glob(c, pattern, up) ==
    /\ Ready(c)
    /\ UNCHANGED <<containers, blobs, handles>>
    /\ GlobSplit(c, pattern, Split(pattern), up)
    /\ UNCHANGED <<storeVars, nodeVars, metaVars, dataVars>>

\* The names of the blobs of a container, as ListBlobs lists them.
ListBlobs(cnt) ==
    Sorted({ k[2] : k \in { k \in Keys : k[1] = cnt /\ blobs[k].exists } })

\* Glob, with b the result of the loop over the blobs of a container.
GlobListed(c, r, b, up) ==
    IF ~up THEN Return(c, Ret("Glob", "store", <<>>))
    ELSE IF b.err # "nil" THEN Return(c, Ret("Glob", b.err, <<>>))
    ELSE GlobNext(c, r.pattern,
                  GlobContainers(Split(r.pattern)[1], Tail(r.cnts)), b.matches)

\* Glob: resp, err := c.blobClient.ListBlobs(cnt.Name, ...) and the loop
\* over its blobs
GlobListBlobs(c, up) ==
    /\ At(c, "ListBlobs")
    /\ UNCHANGED <<containers, blobs, handles>>
    /\ GlobListed(c, call[c],
                  GlobBlobs(Split(call[c].pattern)[2], Head(call[c].cnts),
                            ListBlobs(Head(call[c].cnts)), call[c].matches),
                  up)
    /\ UNCHANGED <<storeVars, nodeVars, metaVars, dataVars>>

\* ---------------------------------------------------------- specifications
Next ==
    \/ \E n \in Tasks, e \in Uint64, up \in BOOLEAN : incEpoch(n, e, up)
    \/ \E n \in Tasks, up \in BOOLEAN : ShutdownJob(n, up)
    \/ \E n \in Tasks, up \in BOOLEAN : ShutdownJobSetStatus(n, up)
    \/ \E n \in Tasks : EpochWatch(n)
    \/ \E n \in Tasks : Kill(n)
    \/ \E n \in Tasks : EventLoopExit(n)
    \/ \E n \in Tasks, m \in Metas, e \in TaskEpochs, up \in BOOLEAN :
           flagMetaToParent(n, m, e, up)
    \/ \E n \in Tasks, m \in Metas, e \in TaskEpochs, up \in BOOLEAN :
           flagMetaToChild(n, m, e, up)
    \/ \E n \in Tasks, k \in MetaKeys, i \in 1..MaxWrites : MetaWatch(n, k, i)
    \/ \E n \in Tasks : Restart(n)
    \/ \E n \in Requesters, t \in Tasks, p \in Payloads :
           t # n /\ requestData(n, t, p)
    \/ \E n \in Requesters : SendRequest(n)
    \/ \E n \in Requesters, t \in Tasks, e \in TaskEpochs : t # n /\ onDataResponse(n, t, e)

Spec == Init /\ [][Next]_vars

\* The epoch coordinator alone.
NextEpoch ==
    \/ \E n \in Tasks, e \in Uint64, up \in BOOLEAN : incEpoch(n, e, up)
    \/ \E n \in Tasks, up \in BOOLEAN : ShutdownJob(n, up)
    \/ \E n \in Tasks, up \in BOOLEAN : ShutdownJobSetStatus(n, up)
    \/ \E n \in Tasks : EpochWatch(n)
    \/ \E n \in Tasks : Kill(n)
    \/ \E n \in Tasks : EventLoopExit(n)

SpecEpoch == Init /\ [][NextEpoch]_vars

\* The meta notification protocol and the restart supervisor.
NextMeta ==
    \/ \E n \in Tasks, m \in Metas, e \in TaskEpochs, up \in BOOLEAN :
           flagMetaToParent(n, m, e, up)
    \/ \E n \in Tasks, m \in Metas, e \in TaskEpochs, up \in BOOLEAN :
           flagMetaToChild(n, m, e, up)
    \/ \E n \in Tasks, k \in MetaKeys, i \in 1..MaxWrites : MetaWatch(n, k, i)
    \/ \E n \in Tasks : Restart(n)

SpecMeta == Init /\ [][NextMeta]_vars

\* The meta watches alone: both tasks flag metas and watch each other's.
NextWatch ==
    \/ \E n \in Tasks, m \in Metas, e \in TaskEpochs, up \in BOOLEAN :
           flagMetaToParent(n, m, e, up)
    \/ \E n \in Tasks, m \in Metas, e \in TaskEpochs, up \in BOOLEAN :
           flagMetaToChild(n, m, e, up)
    \/ \E n \in Tasks, k \in MetaKeys, i \in 1..MaxWrites : MetaWatch(n, k, i)

SpecWatch == Init /\ [][NextWatch]_vars

\* The data exchange router, with the epoch advancing underneath it.
NextData ==
    \/ \E n \in Requesters, t \in Tasks, p \in Payloads :
           t # n /\ requestData(n, t, p)
    \/ \E n \in Requesters : SendRequest(n)
    \/ \E n \in Requesters, t \in Tasks, e \in TaskEpochs : t # n /\ onDataResponse(n, t, e)
    \/ \E n \in Tasks, e \in Uint64, up \in BOOLEAN : incEpoch(n, e, up)
    \/ \E n \in Tasks : EpochWatch(n)

SpecData == Init /\ [][NextData]_vars

\* Every operation that writes to the store, with the epoch and meta watches.
NextStore ==
    \/ \E n \in Tasks, e \in Uint64, up \in BOOLEAN : incEpoch(n, e, up)
    \/ \E n \in Tasks, up \in BOOLEAN : ShutdownJob(n, up)
    \/ \E n \in Tasks, up \in BOOLEAN : ShutdownJobSetStatus(n, up)
    \/ \E n \in Tasks : EpochWatch(n)
    \/ \E n \in Tasks, m \in Metas, e \in TaskEpochs, up \in BOOLEAN :
           flagMetaToParent(n, m, e, up)
    \/ \E n \in Tasks, m \in Metas, e \in TaskEpochs, up \in BOOLEAN :
           flagMetaToChild(n, m, e, up)
    \/ \E n \in Tasks, k \in MetaKeys, i \in 1..MaxWrites : MetaWatch(n, k, i)

SpecStore == Init /\ [][NextStore]_vars

\* The epoch coordinator, on nodes whose Task also requests data, with the
\* scheduling the runtime guarantees: a watch value that is ready is
\* delivered and a closed channel is noticed, both when the event loop is
\* free to receive, and a store call in progress returns.
NextConverge ==
    \/ \E n \in Tasks, e \in Uint64, up \in BOOLEAN : incEpoch(n, e, up)
    \/ \E n \in Tasks, up \in BOOLEAN : ShutdownJob(n, up)
    \/ \E n \in Tasks, up \in BOOLEAN : ShutdownJobSetStatus(n, up)
    \/ \E n \in Tasks : EpochWatch(n)
    \/ \E n \in Tasks : Kill(n)
    \/ \E n \in Tasks : EventLoopExit(n)
    \/ \E n \in Requesters, t \in Tasks, p \in Payloads :
           t # n /\ requestData(n, t, p)
    \/ \E n \in Requesters : SendRequest(n)

FairSpecEpoch ==
    /\ Init /\ [][NextConverge]_vars
    /\ \A n \in Tasks : WF_vars(EpochWatch(n))
    /\ \A n \in Tasks : WF_vars(EventLoopExit(n))
    /\ \A n \in Tasks : WF_vars(\E up \in BOOLEAN : ShutdownJobSetStatus(n, up))

\* Shutdown of a node while meta and data events are in flight for it: the
\* parent task flags metas to its child and shuts the job down, the child
\* requests data and is killed.  With the scheduling the runtime guarantees.
NextShutdown ==
    \/ \E n \in Requesters : Kill(n)
    \/ \E n \in Tasks : EventLoopExit(n)
    \/ \E n \in Tasks : EpochWatch(n)
    \/ \E n \in Tasks \ Requesters, up \in BOOLEAN : ShutdownJob(n, up)
    \/ \E n \in Tasks \ Requesters, up \in BOOLEAN : ShutdownJobSetStatus(n, up)
    \/ \E n \in Tasks \ Requesters, m \in Metas, e \in TaskEpochs, up \in BOOLEAN :
           flagMetaToChild(n, m, e, up)
    \/ \E n \in Requesters, k \in MetaKeys, i \in 1..MaxWrites : MetaWatch(n, k, i)
    \/ \E n \in Requesters, t \in Tasks, p \in Payloads :
           t # n /\ requestData(n, t, p)
    \/ \E n \in Requesters : SendRequest(n)
    \/ \E n \in Requesters, t \in Tasks, e \in TaskEpochs : t # n /\ onDataResponse(n, t, e)

FairSpecShutdown ==
    /\ Init /\ [][NextShutdown]_vars
    /\ \A n \in Tasks : WF_vars(EpochWatch(n))
    /\ \A n \in Tasks : WF_vars(EventLoopExit(n))
    /\ \A n \in Tasks : WF_vars(\E up \in BOOLEAN : ShutdownJobSetStatus(n, up))

\* The storage client, shared by the callers.
NextAzureAll ==
    \/ \E c \in Callers, name \in Paths, up \in BOOLEAN : Exists(c, name, up)
    \/ \E c \in Callers, oldpath, newpath \in Paths, up \in BOOLEAN :
           Rename(c, oldpath, newpath, up)
    \/ \E c \in Callers, up \in BOOLEAN : RenameCopyBlob(c, up)
    \/ \E c \in Callers, up \in BOOLEAN : RenameDeleteBlob(c, up)
    \/ \E c \in Callers, name \in Paths, up \in BOOLEAN : OpenReadCloser(c, name, up)
    \/ \E c \in Callers, name \in Paths, up \in BOOLEAN : OpenWriteCloser(c, name, up)
    \/ \E c \in Callers, up \in BOOLEAN : OpenWriteCloserCreateContainerIfNotExists(c, up)
    \/ \E c \in Callers, up \in BOOLEAN : OpenWriteCloserCreateBlockBlob(c, up)
    \/ \E c \in Callers, path \in Paths, b \in Bytes, up \in BOOLEAN : Write(c, path, b, up)
    \/ \E c \in Callers, up \in BOOLEAN : WritePutBlock(c, up)
    \/ \E c \in Callers, up \in BOOLEAN : WriteGetBlockList(c, up)
    \/ \E c \in Callers, up \in BOOLEAN : WritePutBlockList(c, up)
    \/ \E c \in Callers, pattern \in Patterns, up \in BOOLEAN : Glob(c, pattern, up)
    \/ \E c \in Callers, up \in BOOLEAN : GlobListBlobs(c, up)

SpecAzureAll == Init /\ [][NextAzureAll]_vars

\* The storage client with a caller that reads and a caller that writes,
\* on all paths and patterns: the store calls of the one interleave with
\* those of the other.
Readers == { 1 }
Writers == { 2 }

NextAzure ==
    \/ \E c \in Readers, name \in Paths, up \in BOOLEAN : Exists(c, name, up)
    \/ \E c \in Readers, name \in Paths, up \in BOOLEAN : OpenReadCloser(c, name, up)
    \/ \E c \in Readers, pattern \in Patterns, up \in BOOLEAN : Glob(c, pattern, up)
    \/ \E c \in Readers, up \in BOOLEAN : GlobListBlobs(c, up)
    \/ \E c \in Writers, oldpath, newpath \in Paths, up \in BOOLEAN :
           Rename(c, oldpath, newpath, up)
    \/ \E c \in Writers, up \in BOOLEAN : RenameCopyBlob(c, up)
    \/ \E c \in Writers, up \in BOOLEAN : RenameDeleteBlob(c, up)
    \/ \E c \in Writers, name \in Paths, up \in BOOLEAN : OpenWriteCloser(c, name, up)
    \/ \E c \in Writers, up \in BOOLEAN : OpenWriteCloserCreateContainerIfNotExists(c, up)
    \/ \E c \in Writers, up \in BOOLEAN : OpenWriteCloserCreateBlockBlob(c, up)
    \/ \E c \in Writers, path \in Paths, b \in Bytes, up \in BOOLEAN : Write(c, path, b, up)
    \/ \E c \in Writers, up \in BOOLEAN : WritePutBlock(c, up)
    \/ \E c \in Writers, up \in BOOLEAN : WriteGetBlockList(c, up)
    \/ \E c \in Writers, up \in BOOLEAN : WritePutBlockList(c, up)

SpecAzure == Init /\ [][NextAzure]_vars

\* Two callers on well-formed paths: both rename, one of them also creates
\* and writes blobs; the store calls of the one interleave with those of
\* the other.
NextRename ==
    \/ \E c \in Callers, oldpath, newpath \in GoodPaths, up \in BOOLEAN :
           Rename(c, oldpath, newpath, up)
    \/ \E c \in Callers, up \in BOOLEAN : RenameCopyBlob(c, up)
    \/ \E c \in Callers, up \in BOOLEAN : RenameDeleteBlob(c, up)
    \/ \E c \in Writers, name \in GoodPaths, up \in BOOLEAN : OpenWriteCloser(c, name, up)
    \/ \E c \in Writers, up \in BOOLEAN : OpenWriteCloserCreateContainerIfNotExists(c, up)
    \/ \E c \in Writers, up \in BOOLEAN : OpenWriteCloserCreateBlockBlob(c, up)
    \/ \E c \in Writers, path \in GoodPaths, b \in Bytes, up \in BOOLEAN :
           Write(c, path, b, up)
    \/ \E c \in Writers, up \in BOOLEAN : WritePutBlock(c, up)
    \/ \E c \in Writers, up \in BOOLEAN : WriteGetBlockList(c, up)
    \/ \E c \in Writers, up \in BOOLEAN : WritePutBlockList(c, up)

SpecRename == Init /\ [][NextRename]_vars

\* ------------------------------------------------------------------ claims
\* The (peerID, epoch, meta) triple the Task passed in the i-th write to key.
FlaggedTriple(key, i) == <<Owner(key), flagged[key][i][1], flagged[key][i][2]>>

\* The store writes node n has made: its meta keys, the epoch values it
\* wrote and the job status writes it made.
WritesBy(n) ==
    [parent |-> metaLog[ParentMetaPath(n)],
     child |-> metaLog[ChildMetaPath(n)],
     epochs |-> {i \in 1..Len(epochBy) : epochBy[i] = n},
     status |-> {i \in 1..Len(statusLog) : statusLog[i] = n}]

\* C1: on a node that has not been restarted, the meta callback has run
\* exactly once for every (peerID, epoch, meta) the watch has delivered,
\* however often the watch fired, and never more than once for any triple.
C1_IdempotentMetaDelivery ==
    \A n \in Tasks :
        /\ \A t \in DOMAIN metaCalls[n] : metaCalls[n][t] = 1
        /\ ~restarted[n] =>
              \A k \in MetaKeys : \A i \in 1..metaIdx[n][k] :
                  /\ FlaggedTriple(k, i) \in DOMAIN metaCalls[n]
                  /\ metaCalls[n][FlaggedTriple(k, i)] = 1

\* C1 witness: a watch re-delivered a stored value and the callback ran once.
C1_Witness ==
    \E n \in Tasks : \E t \in refired[n] :
        ~restarted[n] /\ t \in DOMAIN metaCalls[n] /\ metaCalls[n][t] = 1

\* C2: the values of the store's epoch key never decrease, and no two
\* successful compare-and-swaps start from the same base value.
C2_EpochMonotonic ==
    /\ \A i \in 1..(Len(epochLog) - 1) : epochLog[i] <= epochLog[i + 1]
    /\ \A i, j \in 1..Len(epochBy) : i # j => epochLog[i] # epochLog[j]

\* C3: a ShutdownJob call that reached the store and is over has set the
\* epoch to the sentinel and the job status, also when another node had
\* advanced the store epoch past the caller's local epoch.
C3_ShutdownUnconditional ==
    \A n \in Tasks :
        (shutdownCalled[n] /\ pc[n] = "idle" /\ failure[n] \notin {"unavailable", "mismatch"}) =>
            /\ \E i \in 1..Len(epochBy) : epochBy[i] = n /\ epochLog[i + 1] = exitEpoch
            /\ \E i \in 1..Len(statusLog) : statusLog[i] = n

\* C4: a node whose advanceEpoch lost the compare-and-swap race to another
\* node keeps running.
C4_LostRaceNotFatal ==
    \A n \in Tasks :
        (failure[n] = "lostRace" /\ ~shutdownCalled[n]) => Running(n)

\* C5: a node that observes the terminal epoch (the maximum value) has left
\* its event loop, and from then on makes no store write.
C5_ShutdownTerminality ==
    [][\A n \in Tasks :
          /\ epoch'[n] = MaxUint64 => status'[n] = "exited"
          /\ epoch[n] = MaxUint64 => WritesBy(n)' = WritesBy(n)]_vars

\* C5 witness: a node that wrote a meta has observed the terminal epoch and
\* exited while the other node can still act.
C5_Witness ==
    \E n, m \in Tasks :
        /\ status[n] = "exited" /\ epoch[n] = MaxUint64
        /\ metaLog[ParentMetaPath(n)] # <<>>
        /\ m # n /\ Running(m)

\* C6: a response handed to the Task carries the epoch the Task passed when
\* it made the request the response was matched to.
C6_StaleResponseRejected ==
    lastResp.kind = "delivered" =>
        (lastResp.request.set /\ lastResp.epoch = lastResp.request.asked)

\* C6 witness: a response older than its pending request arrived and was
\* dropped.
C6_Witness ==
    /\ lastResp.kind = "dropped"
    /\ lastResp.request.set
    /\ lastResp.epoch < lastResp.request.asked

\* C7: a response is dropped only if it does not carry the epoch captured
\* in the pending request for its peer; the node's live epoch plays no part.
C7_MatchOnCapturedEpoch ==
    lastResp.kind = "dropped" =>
        ~(lastResp.request.set /\ lastResp.request.asked = lastResp.epoch)

\* C7 witness: a response tagged with the request's epoch was delivered
\* after the node had moved to a later epoch.
C7_Witness ==
    /\ lastResp.kind = "delivered"
    /\ lastResp.epoch = lastResp.request.asked
    /\ lastResp.live > lastResp.epoch

\* C8: the rebuilt Task of a restarted node has received, exactly once, the
\* most recent meta the store held for each relevant peer at the restart.
C8_RestartRedelivery ==
    \A n \in Tasks :
        restarted[n] =>
            \A t \in replayed[n] :
                t \in DOMAIN metaCalls[n] /\ metaCalls[n][t] = 1

\* C8 witness: a restarted node was handed a meta raised before the restart,
\* the watch fired for it again afterwards, and the callback ran once.
C8_Witness ==
    \E n \in Tasks : \E t \in replayed[n] :
        restarted[n] /\ t \in refired[n] /\ metaCalls[n][t] = 1

\* C9: a node whose store operation failed because the store was
\* unavailable is dead, and from then on it makes no store write and its
\* Task gets no callback.
C9_StoreFailureFatal ==
    [][\A n \in Tasks :
          /\ failure'[n] = "unavailable" => status'[n] \in {"fatal", "panicked"}
          /\ failure[n] = "unavailable" =>
                /\ WritesBy(n)' = WritesBy(n)
                /\ metaCalls'[n] = metaCalls[n]
                /\ epoch'[n] = epoch[n]]_vars

\* C9 witness: a meta flag failed on an unavailable store, the node is dead,
\* and the other node has written to the store since.
C9_Witness ==
    \E n, m \in Tasks :
        /\ failure[n] = "unavailable" /\ status[n] = "fatal"
        /\ m # n /\ metaLog[ParentMetaPath(m)] # <<>>

\* A node that has observed the terminal epoch and exited.
ObservedExit(n) == status[n] = "exited" /\ epoch[n] = exitEpoch

\* A node stopped in a way the design provides for: its Kill() was called
\* and its loop returned, or a store operation of its own found the store
\* unavailable.
StoppedByDesign(n) == status[n] = "killed" \/ failure[n] = "unavailable"

\* C10: under fair delivery of the epoch watch the local epoch of every
\* running node ends up equal to the store's epoch, and once a ShutdownJob
\* has set the terminal epoch every node running then observes the terminal
\* epoch and exits, unless it is stopped by its own Kill() or by a store
\* failure first.
C10_EpochConvergence ==
    /\ <>[](\A n \in Tasks : Running(n) => epoch[n] = storeEpoch)
    /\ \A n, m \in Tasks :
          (pc[n] = "SetJobStatus" /\ Running(m))
              ~> (ObservedExit(m) \/ StoppedByDesign(m))

\* C11: a Kill() of one node, and the exit of its event loop that follows,
\* write nothing to the store (epoch, job status and meta keys keep their
\* values) and leave the state of every other node as it was.
C11_KillIsLocal ==
    [][\A n \in Tasks :
          (epochChanClosed'[n] # epochChanClosed[n]
             \/ (failure'[n] = "closeOfClosedChannel" /\ failure[n] # failure'[n])
             \/ (status'[n] = "killed" /\ status[n] # "killed")) =>
              /\ storeVars' = storeVars
              /\ \A m \in Tasks \ {n} :
                    /\ status'[m] = status[m]
                    /\ epoch'[m] = epoch[m]
                    /\ epochChanClosed'[m] = epochChanClosed[m]]_vars

\* C11 witness: one node was killed after the job's epoch had advanced; the
\* other node is running at the store's epoch, which is not the terminal one.
C11_Witness ==
    \E n, m \in Tasks :
        /\ status[n] = "killed" /\ epochChanClosed[n]
        /\ m # n /\ Running(m) /\ ~epochChanClosed[m]
        /\ Len(epochLog) > 1 /\ storeEpoch # exitEpoch /\ epoch[m] = storeEpoch

\* C20: a requestData call made on the event-loop thread returns: whenever
\* the call is waiting in the channel send, the event loop of that node can
\* take a request out of the channel and so make room for it.
C20_RequestDataReturns ==
    \A n \in Tasks : pc[n] = "dataRequest" => ENABLED SendRequest(n)

\* C12: a node whose Kill() was called, or that observed the terminal epoch,
\* leaves the Running state; from then on its watches and channels carry
\* nothing (the watch positions, the request channel and the pending table
\* stay as they are) and its Task gets no meta and no data event.
C12_ShuttingDown ==
    /\ \A n \in Tasks : (epochChanClosed[n] \/ epoch[n] = exitEpoch) ~> ~Running(n)
    /\ [][\A n \in Tasks : ~Running(n) =>
              /\ status'[n] = status[n]
              /\ epochIdx'[n] = epochIdx[n] /\ metaIdx'[n] = metaIdx[n]
              /\ metaCalls'[n] = metaCalls[n]
              /\ reqChan'[n] = reqChan[n] /\ pending'[n] = pending[n]
              /\ (lastResp' # lastResp => lastResp'.node # n)]_vars

\* Whether a path is not container/blob with a container name of the
\* required length.
Malformed(name) == AzurePath[name].err # "nil"

\* A step that is a call of caller c with a malformed path argument: for
\* Glob a pattern that does not have exactly two "/"-separated parts.
MalformedCall(c) ==
    \/ \E name \in Paths, up \in BOOLEAN :
          /\ Malformed(name)
          /\ \/ Exists(c, name, up) \/ OpenReadCloser(c, name, up)
             \/ OpenWriteCloser(c, name, up)
             \/ \E b \in Bytes : Write(c, name, b, up)
    \/ \E oldpath, newpath \in Paths, up \in BOOLEAN :
          /\ Malformed(oldpath) \/ Malformed(newpath)
          /\ Rename(c, oldpath, newpath, up)
    \/ \E pattern \in Patterns, up \in BOOLEAN :
          Len(Split(pattern)) # 2 /\ Glob(c, pattern, up)

\* C13: every call of a path-taking operation with a malformed path returns
\* a non-nil error, does not crash, and leaves the store as it was.
C13_MalformedPathIsError ==
    [][\A c \in Callers :
          MalformedCall(c) =>
              /\ azRet'.err \notin {"nil", "panic"}
              /\ blobs' = blobs /\ containers' = containers]_vars

\* C14: whenever the meta callback of a node runs for a new triple, the
\* triple's peer is a parent or a child of the node in the topology of the
\* epoch the node is in; a meta of a peer of an earlier epoch only is not
\* delivered.
C14_StaleWatchesTornDown ==
    [][\A n \in Tasks :
          \A t \in (DOMAIN metaCalls'[n]) \ (DOMAIN metaCalls[n]) :
              t[1] \in GetParents(n, epoch'[n]) \cup GetChildren(n, epoch'[n])]_vars

\* C14 witness: a node has moved to an epoch in which a task is no longer its
\* peer; that task's meta key holds a value the node was never handed, and
\* the node's Task has not been called for it.
C14_Witness ==
    \E n \in Tasks : \E k \in MetaKeys :
        /\ Running(n) /\ epoch[n] # 0
        /\ k \in WatchedKeys_Stale(n) /\ k \notin WatchedKeys(n)
        /\ Len(metaLog[k]) > metaIdx[n][k]
        /\ FlaggedTriple(k, Len(metaLog[k])) \notin DOMAIN metaCalls[n]
        /\ epochIdx[n] = Len(epochLog)

\* C15: the epoch stamped on a request that requestData enqueues equals the
\* node's current epoch (GetEpoch) at the moment of the call, whatever the
\* epoch was before and becomes later.
C15_RequestCapturesCurrentEpoch ==
    [][\A n \in Tasks :
          Len(reqChan'[n]) > Len(reqChan[n]) =>
              reqChan'[n][Len(reqChan'[n])].epoch = GetEpoch(n)]_vars

\* C15 witness: the node's epoch changed, the Task then requested data, and
\* the epoch changed again: the request waiting in the channel carries the
\* epoch of the moment of the call, which is neither the first epoch nor the
\* node's epoch now.
C15_Witness ==
    \E n \in Tasks :
        /\ Len(reqChan[n]) > 0
        /\ reqChan[n][1].epoch # 0
        /\ epoch[n] # reqChan[n][1].epoch
        /\ Running(n)

\* C16: the metas one task writes in one direction reach a watching peer in
\* the order written: each time the watch of a key moves, it moves to the
\* very next value written to the key (none skipped, never back), and the
\* Task's callback has then run for that value.
C16_PerSourceOrder ==
    [][\A n \in Tasks : \A k \in MetaKeys :
          metaIdx'[n][k] # metaIdx[n][k] =>
              /\ metaIdx'[n][k] = metaIdx[n][k] + 1
              /\ FlaggedTriple(k, metaIdx'[n][k]) \in DOMAIN metaCalls'[n]]_vars

\* C16 witness: a peer wrote two different metas to one key and the
\* watching node's Task was called for the first and then for the second.
C16_Witness ==
    \E n \in Tasks : \E k \in MetaKeys :
        /\ Len(metaLog[k]) = 2 /\ metaLog[k][1] # metaLog[k][2]
        /\ metaIdx[n][k] = 2
        /\ FlaggedTriple(k, 1) \in DOMAIN metaCalls[n]
        /\ FlaggedTriple(k, 2) \in DOMAIN metaCalls[n]

\* The committed content a path holds, if its blob exists.
Holds(path, content) ==
    blobs[Key(path)].exists /\ blobs[Key(path)].committed = content

\* The same of the state a step leads to.
HoldsNext(path, content) ==
    blobs'[Key(path)].exists /\ blobs'[Key(path)].committed = content

\* Whether a call record is that of a Rename between its store calls.
InRename(r) == r.pc \in {"CopyBlob", "DeleteBlob"}

\* What a step keeps of the Rename of caller c, of every Rename or, with
\* undisturbed, of a Rename no other call has changed the blobs of: while
\* the Rename is between its store calls, and when it returns (with or
\* without an error), at least one of the two paths holds a blob; after a
\* successful Rename of distinct paths only the destination exists, and a
\* Rename of a path to itself keeps the blob.  As long as the Rename is
\* undisturbed the blob is the source with the content it had, or the
\* destination with that content.
RenameKeepsContent(c, undisturbed) ==
    LET r == call[c]
        t == call'[c]
        content == blobs[Key(r.old)].committed
    IN  /\ (InRename(t) /\ (undisturbed => t.clean)) =>
              (blobs'[Key(t.old)].exists \/ blobs'[Key(t.new)].exists)
        /\ (InRename(t) /\ t.clean) =>
              /\ blobs'[Key(t.old)].exists
              /\ t.pc = "DeleteBlob" =>
                    HoldsNext(t.new, blobs'[Key(t.old)].committed)
        /\ (InRename(r) /\ t.pc = "idle" /\ (undisturbed => r.clean)) =>
              /\ blobs'[Key(r.old)].exists \/ blobs'[Key(r.new)].exists
              /\ (azRet'.err = "nil" /\ r.old # r.new) =>
                    (~blobs'[Key(r.old)].exists /\ blobs'[Key(r.new)].exists)
              /\ r.old = r.new => blobs'[Key(r.old)].exists
        /\ (InRename(r) /\ t.pc = "idle" /\ r.clean) =>
              /\ HoldsNext(r.old, content) \/ HoldsNext(r.new, content)
              /\ (azRet'.err = "nil" /\ r.old # r.new) => HoldsNext(r.new, content)
              /\ r.old = r.new => HoldsNext(r.old, content)

\* A blob stops existing only by the DeleteBlob step of a Rename, which
\* follows a copy that succeeded and leaves the destination as it is; the
\* copy leaves the source as it is; a Rename that returns because oldpath
\* does not exist changes nothing.
RenameDeletesAfterCopy ==
    /\ \A k \in Keys :
          (blobs[k].exists /\ ~blobs'[k].exists) =>
              \E c \in Callers :
                  /\ call[c].pc = "DeleteBlob" /\ call'[c].pc = "idle"
                  /\ k = Key(call[c].old) /\ call[c].old # call[c].new
                  /\ blobs'[Key(call[c].new)] = blobs[Key(call[c].new)]
    /\ \A c \in Callers :
          (call[c].pc = "CopyBlob" /\ call'[c].pc # "CopyBlob" /\ call[c].old # call[c].new) =>
              /\ blobs'[Key(call[c].old)] = blobs[Key(call[c].old)]
              /\ call'[c].pc = "DeleteBlob" =>
                    HoldsNext(call[c].new, blobs[Key(call[c].old)].committed)
    /\ (azRet' # azRet /\ azRet'.op = "Rename" /\ azRet'.err = "notExist") =>
          (blobs' = blobs /\ containers' = containers)

\* C17, as stated: Rename fails and changes nothing when oldpath does not
\* exist; the source is deleted only by the step after a copy that
\* succeeded; in every intermediate and final state of every Rename at
\* least one of the two paths holds a blob.
C17_RenameCopiesBeforeDelete ==
    [][RenameDeletesAfterCopy
       /\ \A c \in Callers : RenameKeepsContent(c, FALSE)]_vars

\* C17, amended: the same of a Rename during which no other call changes
\* one of the two blobs.
C17_UndisturbedRenameKeepsContent ==
    [][RenameDeletesAfterCopy
       /\ \A c \in Callers : RenameKeepsContent(c, TRUE)]_vars

\* C17 witness: a Rename of a blob with content to another path has copied
\* and is about to delete, undisturbed, while the other caller is between
\* the store calls of a call of its own; both paths hold the content.
C17_Witness ==
    \E c, d \in Callers :
        /\ c # d /\ call[d].pc # "idle"
        /\ call[c].pc = "DeleteBlob" /\ call[c].clean
        /\ blobs[Key(call[c].old)].committed # <<>>
        /\ Holds(call[c].old, blobs[Key(call[c].old)].committed)
        /\ Holds(call[c].new, blobs[Key(call[c].old)].committed)

\* C18: the terminal epoch is absorbing: once the store's epoch is the
\* sentinel exitEpoch, no operation of any node changes it.
C18_TerminalEpochAbsorbing ==
    [][storeEpoch = exitEpoch => storeEpoch' = exitEpoch]_vars

\* C19: stopping a node never closes its epoch channel a second time.
C19_StopIsCrashFree ==
    \A n \in Tasks : failure[n] # "closeOfClosedChannel"

====
